---- MODULE Spec2Model ----
(***************************************************************************)
(* ConnectionToCore: the client-side controller that multiplexes requests  *)
(* and responses over one transport.  Every async method is cut at its     *)
(* awaits: one action per synchronous stretch of code, so that other tasks *)
(* interleave exactly at the suspension points of the source.  The         *)
(* continuation of `await Promise.all([promise, transport.send(..)])` is a *)
(* microtask: it runs right after the synchronous stretch that settles the *)
(* entry or the send, before the next transport event, timer or call, and  *)
(* is part of the action that settles it.                                  *)
(***************************************************************************)
EXTENDS Integers, Sequences, FiniteSets, TLC

\* ---------------------------------------------------------------- bounds
\* entries sendRequest creates over the life of one controller
MaxRequests == 2
\* sendRequest calls in progress at once
MaxConcurrent == 2
\* Resolvables held by connectPromise over the life of one controller
MaxConnects == 2

\* calls of LogEvents.subscribe
MaxSubscriptions == 3
\* log entries broadcast
MaxEntries == 3

MsgIds == 1..MaxRequests
ReqIds == 1..MaxConcurrent
Promises == 1..MaxConnects

\* ---------------------------------------------------------------- values
\* A value carried by a promise: payload, null, undefined or an Error with
\* its name and its isDisconnecting marker.
None == [k |-> "none", n |-> "", m |-> FALSE]
Undefined == [k |-> "undefined", n |-> "", m |-> FALSE]
Null == [k |-> "null", n |-> "", m |-> FALSE]
Data(d) == [k |-> "data", n |-> d, m |-> FALSE]
Err(name, marker) == [k |-> "err", n |-> name, m |-> marker]

\* The Core answers the request with messageId id with that request's own
\* payload, or with an error.
PayloadOf(id) == "d" \o ToString(id)
BrowserLaunchErrorNames == {"BrowserLaunchError", "DependenciesMissingError"}
\* the names of the errors a response may carry
ResponseErrorNames ==
  {"X", "SessionClosedOrMissingError", "DisconnectedError"} \cup BrowserLaunchErrorNames
InboundData(id) ==
  {Data(PayloadOf(id)), Err("X", FALSE), Err("X", TRUE),
   Err("SessionClosedOrMissingError", FALSE)}
    \cup {Err(n, TRUE) : n \in BrowserLaunchErrorNames}

DisconnectedError == Err("DisconnectedError", FALSE)
TimeoutError == Err("TimeoutError", FALSE)
SendError == Err("SendError", FALSE)
HookError == Err("HookError", FALSE)
ConnectError == Err("ConnectError", FALSE)
TypeError == Err("TypeError", FALSE)

IsError(v) == v.k = "err"
\* DisconnectedError extends CanceledPromiseError
IsCanceledPromiseError(v) == v.k = "err" /\ v.n = "DisconnectedError"

\* a variant that knows one of the two names
isBrowserLaunchErrorByLaunchNameOnly(error) ==
  error.n = "BrowserLaunchError"

isBrowserLaunchError(error) ==
  error.n = "BrowserLaunchError" \/ error.n = "DependenciesMissingError"

Min(a, b) == IF a < b THEN a ELSE b

\* -------------------------------------------------------- PendingMessages
\* The table of in-flight requests: lastId, the ids still pending, the ids
\* flagged internal, the outcome delivered to each id's promise (until the
\* sendRequest awaiting it has taken it), and the number of completions
\* delivered to each id.
NewPendingMessages ==
  [lastId |-> 0, pending |-> {}, internal |-> {},
   settled |-> [i \in MsgIds |-> None], completions |-> [i \in MsgIds |-> 0]]

\* a variant of create that takes the id from the size of the table
PMCreateReusingSize(pm, isInternal) ==
  LET id == Cardinality(pm.pending) + 1 IN
  [pm EXCEPT !.lastId = id,
             !.pending = @ \cup {id},
             !.internal = IF isInternal THEN @ \cup {id} ELSE @ \ {id}]

\* create(timeoutMs, isInternal): the next id of a counter that only grows
PMCreate(pm, isInternal) ==
  LET id == pm.lastId + 1 IN
  [pm EXCEPT !.lastId = id,
             !.pending = @ \cup {id},
             !.internal = IF isInternal THEN @ \cup {id} ELSE @]

\* a variant of resolve/reject that leaves the entry in the table
PMSettleKeepingEntry(pm, id, v) ==
  IF id \in pm.pending
  THEN [pm EXCEPT !.settled[id] = IF @ = None THEN v ELSE @,
                  !.completions[id] = @ + 1]
  ELSE pm

\* resolve(id, data) and reject(id, error): complete the entry if it is
\* still in the table, and remove it; otherwise nothing.
PMSettle(pm, id, v) ==
  IF id \in pm.pending
  THEN [pm EXCEPT !.settled[id] = v,
                  !.completions[id] = @ + 1,
                  !.pending = @ \ {id},
                  !.internal = @ \ {id}]
  ELSE pm

PMResolve(pm, id, data) == PMSettle(pm, id, data)
PMReject(pm, id, error) == PMSettle(pm, id, error)

\* a variant of delete that removes nothing
PMDeleteNothing(pm, ids) == pm

\* delete(id), for each id of ids
PMDelete(pm, ids) ==
  [pm EXCEPT !.pending = @ \ ids, !.internal = @ \ ids]

\* cancel(error): fail every entry of user traffic; internal entries are
\* exempt.
PMCancel(pm, error) ==
  LET hit == pm.pending \ pm.internal IN
  [pm EXCEPT !.settled = [i \in MsgIds |-> IF i \in hit THEN error ELSE @[i]],
             !.completions = [i \in MsgIds |-> IF i \in hit THEN @[i] + 1 ELSE @[i]],
             !.pending = @ \ hit]

\* ------------------------------------------------------------------ state
VARIABLES
  connectPromise,          \* 0 (null) or the index in cps of the Resolvable
  cps,                     \* the Resolvables made by connect(), and their owner task
  disconnectPromise,       \* "null", "pending" or "resolved"
  didAutoConnect,
  isConnectionTerminated,
  isSendingConnect,
  isSendingDisconnect,
  connectMessageId,        \* 0 when unset
  disconnectMessageId,     \* 0 when unset
  pm,                      \* pendingMessages
  transport,               \* the 'disconnected' signals it has emitted (up to 2)
  disc,                    \* position of the disconnect() call that tears down
  term,                    \* position of onConnectionTerminated
  req,                     \* the sendRequest calls in progress
  returned,                \* the sendRequest calls that returned in the last step
  gen,                     \* observations of the current connection generation
  tcCalls,                 \* transport.connect invocations
  termRuns,                \* runs of onConnectionTerminated past its latch
  logEvents                \* LogEvents.subscriptions, and what its callers saw

controllerVars ==
  <<connectPromise, cps, disconnectPromise, didAutoConnect, isConnectionTerminated,
    isSendingConnect, isSendingDisconnect, connectMessageId, disconnectMessageId,
    pm, transport, disc, term, req, returned, gen, tcCalls, termRuns>>

vars == <<controllerVars, logEvents>>

\* A Resolvable of connect(): st is its settlement, pc the position of the
\* connect() call that created it, ret what that call returned (-1 not yet,
\* 0 a thrown TypeError, else the Resolvable whose promise it returned),
\* thrown the error its try block threw, connected whether it emitted
\* 'connected'.
UnusedPromise ==
  [st |-> "unused", err |-> None, pc |-> "none", ret |-> -1,
   thrown |-> None, connected |-> FALSE]
ConstructedResolved ==
  [st |-> "resolved", err |-> None, pc |-> "done", ret |-> 1,
   thrown |-> None, connected |-> FALSE]

\* Who calls sendRequest: user code, or a hook run
User == <<"user", 0>>
AfterConnectFn(p) == <<"afterConnectFn", p>>
BeforeDisconnectFn == <<"disconnect", 0>>
BeforeDisconnectFnOnTermination == <<"onConnectionTerminated", 0>>

\* A sendRequest call: its position, the flags it sampled, the id of its
\* entry, the connect() it awaits (the call that made Resolvable wOwner, or
\* the promise of Resolvable wProm) and the state of its transport.send.
IdleRequest ==
  [pc |-> "idle", caller |-> <<"none", 0>>, isConnect |-> FALSE,
   isDisconnect |-> FALSE, id |-> 0, wOwner |-> 0, wProm |-> 0, send |-> "none"]

\* What a sendRequest call returned or threw; id 0 for a call that never
\* created an entry.
Returned(id, result) == [id |-> id, result |-> result]
NoReturn == returned' = {}

\* What has happened in the current connection generation (since the
\* construction, or since the connect() that follows a finished disconnect()):
\* a disconnect() call, teardowns begun, and the controller's 'disconnected'
\* emits (counted up to 2).
NewGen ==
  [disconnectCalled |-> FALSE, teardowns |-> 0, emits |-> 0]

\* ------------------------------------------------------------ LogEvents
\* the functions handed to subscribe, and the keys subscribe can compute
LogFns == {"f", "g"}
SubscriptionKeys == 1..(MaxSubscriptions + 1)

\* global.UlxSubscriptions, a Map: its entries (0 for no entry under a key)
\* and the own properties set on the Map object by index assignment; with
\* them the subscriptions that subscribe has returned and unsubscribe has not
\* been called for (n is the call of subscribe), the count of subscribe
\* calls, the id of the last entry logged and the functions that the last
\* broadcast invoked.
NewLogEvents ==
  [subscriptions |-> [k \in SubscriptionKeys |-> 0],
   properties |-> [k \in SubscriptionKeys |-> 0],
   active |-> {},
   subscribeCalls |-> 0,
   logId |-> 0,
   invoked |-> {}]

\* Map.prototype.size
Size(map) == Cardinality({k \in SubscriptionKeys : map[k] # 0})

\* Map.prototype.forEach(x => x(entry)): the values of the entries
ForEach(map) == {map[k] : k \in {j \in SubscriptionKeys : map[j] # 0}}

\* LogEvents.subscribe(onLogFn): the id is size + 1 and the function is
\* assigned to the property of that name on the Map object
Subscribe(onLogFn) ==
  /\ logEvents.subscribeCalls < MaxSubscriptions
  /\ LET id == Size(logEvents.subscriptions) + 1
     IN logEvents' =
          [logEvents EXCEPT
             !.properties[id] = onLogFn,
             !.subscribeCalls = @ + 1,
             !.active = @ \cup {[id |-> id, fn |-> onLogFn, n |-> logEvents.subscribeCalls + 1]},
             !.invoked = {}]
  /\ UNCHANGED controllerVars

\* LogEvents.unsubscribe(subscriptionId): Map.prototype.delete
Unsubscribe(subscriptionId) ==
  /\ logEvents' =
       [logEvents EXCEPT
          !.subscriptions[subscriptionId] = 0,
          !.active = {s \in @ : s.id # subscriptionId},
          !.invoked = {}]
  /\ UNCHANGED controllerVars

\* Log.log: the next entry is made and handed to LogEvents.broadcast, which
\* calls every value of the Map with it
Broadcast ==
  /\ logEvents.logId < MaxEntries
  /\ logEvents' =
       [logEvents EXCEPT
          !.logId = @ + 1,
          !.invoked = ForEach(logEvents.subscriptions)]
  /\ UNCHANGED controllerVars

\* constructor(transport, skipConnect): a connected transport with skipConnect
\* starts with a resolved connectPromise.
Init ==
  /\ \E isConnected \in BOOLEAN, skipConnect \in BOOLEAN :
       /\ connectPromise = IF isConnected /\ skipConnect THEN 1 ELSE 0
       /\ cps = [p \in Promises |->
                   IF p = 1 /\ isConnected /\ skipConnect
                   THEN ConstructedResolved ELSE UnusedPromise]
  /\ transport = [disconnectedSignals |-> 0]
  /\ gen = NewGen
  /\ disconnectPromise = "null"
  /\ didAutoConnect = FALSE
  /\ isConnectionTerminated = FALSE
  /\ isSendingConnect = FALSE
  /\ isSendingDisconnect = FALSE
  /\ connectMessageId = 0
  /\ disconnectMessageId = 0
  /\ pm = NewPendingMessages
  /\ disc = "idle"
  /\ term = "idle"
  /\ req = [i \in ReqIds |-> IdleRequest]
  /\ returned = {}
  /\ tcCalls = 0
  /\ termRuns = 0
  /\ logEvents = NewLogEvents

\* ------------------------------------------------- sendRequest, settling
\* `await Promise.all([promise, transport.send(...)])` has settled for call i:
\* it rejects with the first rejection, and fulfils when both have.
AllRejected(table, r, i) ==
  IsError(table.settled[r[i].id]) \/ r[i].send = "failed"
AllFulfilled(table, r, i) ==
  /\ table.settled[r[i].id] # None
  /\ ~IsError(table.settled[r[i].id])
  /\ r[i].send = "ok"
AllSettled(table, r, i) ==
  r[i].pc = "sent" /\ (AllRejected(table, r, i) \/ AllFulfilled(table, r, i))
AllError(table, r, i) ==
  IF r[i].send = "failed" THEN SendError ELSE table.settled[r[i].id]

\* a variant of the catch that always rethrows
SendRequestCatchRethrowing(error, dp) == error

\* catch (error): a CanceledPromiseError while disconnectPromise is set is
\* swallowed (the call returns undefined); any other error is thrown
SendRequestCatch(error, dp) ==
  IF dp # "null" /\ IsCanceledPromiseError(error) THEN Undefined ELSE error

\* sendRequest after the await of Promise.all, for every call it has settled
\* for, on table and calls r, with disconnectPromise dp: the return, or the
\* catch with pendingMessages.delete(id), and the finally
SendRequestSettles(table, r, dp) ==
  LET done == {i \in ReqIds : AllSettled(table, r, i)}
      failed == {i \in done : AllRejected(table, r, i)}
      deleted == {r[i].id : i \in failed}
      taken == {r[i].id : i \in done}
  IN /\ pm' = [PMDelete(table, deleted) EXCEPT
                 !.settled = [id \in MsgIds |-> IF id \in taken THEN None ELSE @[id]]]
     /\ req' = [i \in ReqIds |-> IF i \in done THEN IdleRequest ELSE r[i]]
     /\ returned' =
          {Returned(r[i].id,
                    IF i \in failed
                    THEN SendRequestCatch(AllError(table, r, i), dp)
                    ELSE table.settled[r[i].id]) : i \in done}
     /\ connectMessageId' =
          IF \E i \in done : r[i].isConnect THEN 0 ELSE connectMessageId
     /\ disconnectMessageId' =
          IF \E i \in done : r[i].isDisconnect THEN 0 ELSE disconnectMessageId

\* ---------------------------------------------------------------- connect
\* a variant that connects again after a failed handshake
NeedsConnectOrFailed ==
  IF connectPromise = 0 THEN TRUE ELSE cps[connectPromise].st = "rejected"

\* if (!this.connectPromise)
NeedsConnect == connectPromise = 0

HasFreePromise == \E p \in Promises : cps[p].st = "unused"
NextPromise ==
  CHOOSE p \in Promises :
    cps[p].st = "unused" /\ \A q \in Promises : q < p => cps[q].st # "unused"

\* connect(isAutoConnect) up to its first await: the first call of a cycle
\* makes the Resolvable and invokes transport.connect; the others go straight
\* to returning connectPromise.promise.
Connect(isAutoConnect) ==
  /\ NeedsConnect => HasFreePromise
  /\ IF NeedsConnect
     THEN /\ didAutoConnect' = isAutoConnect
          /\ connectPromise' = NextPromise
          /\ cps' = [cps EXCEPT ![NextPromise] =
                       [st |-> "pending", err |-> None, pc |-> "transportConnect",
                        ret |-> -1, thrown |-> None, connected |-> FALSE]]
          /\ tcCalls' = tcCalls + 1
          /\ gen' = IF disc = "done" THEN NewGen ELSE gen
     ELSE UNCHANGED <<didAutoConnect, connectPromise, cps, tcCalls, gen>>

\* a connect() call by user code that makes the Resolvable (one that finds
\* it made changes nothing)
UserConnect(isAutoConnect) ==
  /\ NeedsConnect
  /\ Connect(isAutoConnect)
  /\ NoReturn
  /\ UNCHANGED <<disconnectPromise, isConnectionTerminated, isSendingConnect,
                 isSendingDisconnect, connectMessageId, disconnectMessageId, pm,
                 transport, disc, term, req, termRuns>>
  /\ UNCHANGED logEvents

\* Resolvable.resolve / reject: set once
ResolveIn(c, p) ==
  IF c[p].st = "pending" THEN [c EXCEPT ![p].st = "resolved"] ELSE c
RejectIn(c, p, err) ==
  IF c[p].st = "pending" THEN [c EXCEPT ![p].st = "rejected", ![p].err = err] ELSE c

\* catch (err) { this.connectPromise.reject(err, true) } and the return of
\* connectPromise.promise, by the call that created p: with connectPromise
\* cleared meanwhile, the catch itself throws a TypeError.
ConnectCatch(p, err) ==
  IF connectPromise = 0
  THEN cps' = [cps EXCEPT ![p].pc = "done", ![p].ret = 0, ![p].thrown = err]
  ELSE cps' = [RejectIn(cps, connectPromise, err) EXCEPT
                 ![p].pc = "done", ![p].ret = connectPromise, ![p].thrown = err]

\* this.connectPromise.resolve(); emit('connected'); then the return of
\* connectPromise.promise
ConnectComplete(p) ==
  cps' = [ResolveIn(cps, connectPromise) EXCEPT
            ![p].pc = "done", ![p].ret = connectPromise, ![p].connected = TRUE]

\* a variant that emits 'connected' on the way into the hook
EnterAfterConnectFnConnected(p) ==
  [cps EXCEPT ![p].pc = "afterConnectFn", ![p].connected = TRUE]

\* this.isSendingConnect = true; await this.hooks.afterConnectFn()
EnterAfterConnectFn(p) ==
  [cps EXCEPT ![p].pc = "afterConnectFn"]

\* the hook run h awaits no sendRequest of its own
HooksRequestsDone(h) ==
  \A j \in ReqIds : req[j].caller # h

\* connect() from the settlement of transport.connect to the next await
ConnectTransportSettles(p, ok, activeSessions, hasHook) ==
  /\ cps[p].pc = "transportConnect"
  /\ IF ~ok
     THEN /\ ConnectCatch(p, ConnectError)
          /\ UNCHANGED isSendingConnect
     ELSE IF activeSessions /\ disconnectPromise # "null" /\ ~didAutoConnect
     THEN /\ ConnectCatch(p, DisconnectedError)
          /\ UNCHANGED isSendingConnect
     ELSE IF connectPromise = 0
     THEN /\ ConnectCatch(p, TypeError)
          /\ UNCHANGED isSendingConnect
     ELSE IF cps[connectPromise].st = "pending" /\ hasHook
     THEN /\ isSendingConnect' = TRUE
          /\ cps' = EnterAfterConnectFn(p)
     ELSE /\ ConnectComplete(p)
          /\ UNCHANGED isSendingConnect
  /\ NoReturn
  /\ UNCHANGED <<connectPromise, disconnectPromise, didAutoConnect,
                 isConnectionTerminated, isSendingDisconnect, connectMessageId,
                 disconnectMessageId, pm, transport, disc, term, req, gen,
                 tcCalls, termRuns>>
  /\ UNCHANGED logEvents

\* connect() from the settlement of afterConnectFn to its return
AfterConnectFnSettles(p, ok) ==
  /\ cps[p].pc = "afterConnectFn"
  /\ HooksRequestsDone(AfterConnectFn(p))
  /\ IF ~ok
     THEN /\ ConnectCatch(p, HookError)
          /\ UNCHANGED isSendingConnect
     ELSE /\ isSendingConnect' = FALSE
          /\ IF connectPromise = 0
             THEN ConnectCatch(p, TypeError)
             ELSE ConnectComplete(p)
  /\ NoReturn
  /\ UNCHANGED <<connectPromise, disconnectPromise, didAutoConnect,
                 isConnectionTerminated, isSendingDisconnect, connectMessageId,
                 disconnectMessageId, pm, transport, disc, term, req, gen,
                 tcCalls, termRuns>>
  /\ UNCHANGED logEvents

\* ------------------------------------------------------------- inbound
\* a variant that hands the data to the oldest pending entry
OnResponseToOldest(table, message) ==
  IF table.pending = {}
  THEN table
  ELSE PMResolve(table, CHOOSE id \in table.pending : \A j \in table.pending : id <= j,
                 message.data)

\* a variant that looks at the isDisconnecting marker alone
isDisconnectedByMarkerOnly(responseError) ==
  responseError.m = TRUE

\* const isDisconnected = ...
isDisconnected(responseError) ==
  \/ disconnectPromise # "null"
  \/ responseError.n = "SessionClosedOrMissingError"
  \/ responseError.m = TRUE

\* onResponse(message), on a given table
OnResponse(table, message) ==
  LET id == message.responseId
      data == message.data
  IN IF IsError(data)
     THEN LET scrubbed == [data EXCEPT !.m = FALSE]
              responseError ==
                IF isDisconnected(data) /\ ~isBrowserLaunchError(scrubbed)
                THEN DisconnectedError
                ELSE scrubbed
          IN PMReject(table, id, responseError)
     ELSE PMResolve(table, id, data)

\* transport 'message' -> onMessage -> onResponse, for a frame with a
\* responseId: the Core answers an id it was sent, once or again (a late or
\* repeated answer being one with data)
TransportMessage(id, data) ==
  /\ id <= pm.lastId
  /\ id \in pm.pending \/ ~IsError(data)
  /\ SendRequestSettles(OnResponse(pm, [responseId |-> id, data |-> data]), req,
                        disconnectPromise)
  /\ UNCHANGED <<connectPromise, cps, disconnectPromise, didAutoConnect,
                 isConnectionTerminated, isSendingConnect, isSendingDisconnect,
                 transport, disc, term, gen, tcCalls, termRuns>>
  /\ UNCHANGED logEvents

\* a variant of the timer that fails every entry of the table
TimeoutRejectsAll(id) ==
  /\ id \in pm.pending
  /\ SendRequestSettles(PMCancel(pm, TimeoutError), req, disconnectPromise)
  /\ UNCHANGED <<connectPromise, cps, disconnectPromise, didAutoConnect,
                 isConnectionTerminated, isSendingConnect, isSendingDisconnect,
                 transport, disc, term, gen, tcCalls, termRuns>>
  /\ UNCHANGED logEvents

\* the timer of an entry created with a timeout fires
Timeout(id) ==
  /\ id \in pm.pending
  /\ SendRequestSettles(PMReject(pm, id, TimeoutError), req, disconnectPromise)
  /\ UNCHANGED <<connectPromise, cps, disconnectPromise, didAutoConnect,
                 isConnectionTerminated, isSendingConnect, isSendingDisconnect,
                 transport, disc, term, gen, tcCalls, termRuns>>
  /\ UNCHANGED logEvents

\* the promise of transport.send(frame) settles
TransportSendSettles(i, ok) ==
  /\ req[i].pc = "sent"
  /\ req[i].send = "pending"
  /\ SendRequestSettles(pm, [req EXCEPT ![i].send = IF ok THEN "ok" ELSE "failed"],
                        disconnectPromise)
  /\ UNCHANGED <<connectPromise, cps, disconnectPromise, didAutoConnect,
                 isConnectionTerminated, isSendingConnect, isSendingDisconnect,
                 transport, disc, term, gen, tcCalls, termRuns>>
  /\ UNCHANGED logEvents

\* -------------------------------------------------------- termination
\* this.events.once(transport, 'disconnected', ...): the listener is called
\* for the first signal only
ListenerCalled == transport.disconnectedSignals = 0

\* if (this.isConnectionTerminated) return;
PassesLatch == ~isConnectionTerminated

\* a variant with neither once-registration nor latch
TerminationRunsOnEverySignal == TRUE

\* a transport 'disconnected' signal runs the body of onConnectionTerminated
TerminationRuns == ListenerCalled /\ PassesLatch

\* the table after onConnectionTerminated's synthesized responses and cancel
TerminatedTable ==
  LET afterConnectId ==
        IF connectMessageId # 0
        THEN OnResponse(pm, [responseId |-> connectMessageId,
                             data |-> IF ~didAutoConnect THEN DisconnectedError ELSE Null])
        ELSE pm
      afterDisconnectId ==
        IF disconnectMessageId # 0
        THEN OnResponse(afterConnectId, [responseId |-> disconnectMessageId, data |-> Null])
        ELSE afterConnectId
  IN PMCancel(afterDisconnectId, DisconnectedError)

\* transport.emit('disconnected'): onConnectionTerminated up to its await of
\* beforeDisconnectFn.  The caller passes what it does itself in the same
\* stretch: its own emits of the controller's 'disconnected', and the
\* disconnectPromise it leaves.
EmitTransportDisconnected(ownEmits, dp) ==
  /\ transport' = [disconnectedSignals |-> Min(transport.disconnectedSignals + 1, 2)]
  /\ IF TerminationRuns
     THEN /\ isConnectionTerminated' = TRUE
          /\ gen' = [gen EXCEPT !.emits = Min(@ + 1 + ownEmits, 2)]
          /\ SendRequestSettles(TerminatedTable, req, dp)
          /\ isSendingDisconnect' = TRUE
          /\ term' = "hook"
          /\ termRuns' = termRuns + 1
     ELSE /\ gen' = [gen EXCEPT !.emits = Min(@ + ownEmits, 2)]
          /\ NoReturn
          /\ UNCHANGED <<isConnectionTerminated, pm, req, connectMessageId,
                         disconnectMessageId, isSendingDisconnect, term, termRuns>>

\* the transport itself signals 'disconnected'
TransportDisconnected ==
  /\ EmitTransportDisconnected(0, disconnectPromise)
  /\ UNCHANGED <<connectPromise, cps, disconnectPromise, didAutoConnect,
                 isSendingConnect, disc, tcCalls>>
  /\ UNCHANGED logEvents

\* onConnectionTerminated after its await of beforeDisconnectFn
TerminationHookSettles(ok) ==
  /\ term = "hook"
  /\ HooksRequestsDone(BeforeDisconnectFnOnTermination)
  /\ term' = "done"
  /\ isSendingDisconnect' = IF ok THEN FALSE ELSE isSendingDisconnect
  /\ NoReturn
  /\ UNCHANGED <<connectPromise, cps, disconnectPromise, didAutoConnect,
                 isConnectionTerminated, isSendingConnect, connectMessageId,
                 disconnectMessageId, pm, transport, disc, req, gen, tcCalls,
                 termRuns>>
  /\ UNCHANGED logEvents

\* ------------------------------------------------------------ disconnect
\* a variant of disconnect() that cancels nothing before its hook
DisconnectCancelsNothing(table) == table

\* this.pendingMessages.cancel(new DisconnectedError(this.transport.host))
DisconnectCancels(table) == PMCancel(table, DisconnectedError)

\* disconnect(fatalError) up to its await of beforeDisconnectFn
UserDisconnect ==
  /\ IF disconnectPromise # "null"
     THEN /\ gen' = [gen EXCEPT !.disconnectCalled = TRUE]
          /\ NoReturn
          /\ UNCHANGED <<disconnectPromise, pm, req, connectMessageId,
                         disconnectMessageId, isSendingDisconnect, disc>>
     ELSE /\ disconnectPromise' = "pending"
          /\ SendRequestSettles(DisconnectCancels(pm), req, "pending")
          /\ isSendingDisconnect' = TRUE
          /\ disc' = "hook"
          /\ gen' = [gen EXCEPT !.disconnectCalled = TRUE, !.teardowns = @ + 1]
  /\ UNCHANGED <<connectPromise, cps, didAutoConnect, isConnectionTerminated,
                 isSendingConnect, transport, term, tcCalls, termRuns>>
  /\ UNCHANGED logEvents

\* a variant of disconnect() without the finally
DisconnectHookSettlesWithoutFinally(ok) ==
  /\ disc = "hook"
  /\ HooksRequestsDone(BeforeDisconnectFn)
  /\ IF ok
     THEN /\ isSendingDisconnect' = FALSE
          /\ disc' = "transportDisconnect"
     ELSE /\ disc' = "done"
          /\ UNCHANGED isSendingDisconnect
  /\ NoReturn
  /\ UNCHANGED <<connectPromise, cps, didAutoConnect, isConnectionTerminated,
                 isSendingConnect, connectMessageId, disconnectMessageId, pm,
                 transport, term, req, gen, tcCalls, termRuns, disconnectPromise>>
  /\ UNCHANGED logEvents

\* disconnect() from the settlement of beforeDisconnectFn to its await of
\* transport.disconnect; a throw goes to the finally
DisconnectHookSettles(ok) ==
  /\ disc = "hook"
  /\ HooksRequestsDone(BeforeDisconnectFn)
  /\ IF ok
     THEN /\ isSendingDisconnect' = FALSE
          /\ disc' = "transportDisconnect"
          /\ UNCHANGED disconnectPromise
     ELSE /\ disconnectPromise' = "resolved"
          /\ disc' = "done"
          /\ UNCHANGED isSendingDisconnect
  /\ NoReturn
  /\ UNCHANGED <<connectPromise, cps, didAutoConnect, isConnectionTerminated,
                 isSendingConnect, connectMessageId, disconnectMessageId, pm,
                 transport, term, req, gen, tcCalls, termRuns>>
  /\ UNCHANGED logEvents

\* disconnect() from the settlement of transport.disconnect to its return
DisconnectTransportSettles(ok) ==
  /\ disc = "transportDisconnect"
  /\ disc' = "done"
  /\ disconnectPromise' = "resolved"
  /\ IF ok
     THEN /\ EmitTransportDisconnected(1, "resolved")
          /\ connectPromise' = 0
     ELSE /\ NoReturn
          /\ UNCHANGED <<transport, isConnectionTerminated, gen, pm, req,
                         connectMessageId, disconnectMessageId, isSendingDisconnect,
                         term, termRuns, connectPromise>>
  /\ UNCHANGED <<cps, didAutoConnect, isSendingConnect, tcCalls>>
  /\ UNCHANGED logEvents

\* ----------------------------------------------------------- sendRequest
\* entries sendRequest may still create
CanCreate ==
  pm.lastId + Cardinality({j \in ReqIds : req[j].pc = "connecting"}) < MaxRequests

\* sendRequest(payload, timeoutMs) up to its first await: with neither flag
\* set it calls connect() and awaits it; with a flag set it goes straight to
\* the pending entry and transport.send.
SendRequest(i, caller) ==
  /\ req[i].pc = "idle"
  /\ \A j \in ReqIds : j < i => req[j].pc # "idle"
  /\ CanCreate
  /\ LET isConnect == isSendingConnect
         isDisconnect == isSendingDisconnect
     IN IF ~isConnect /\ ~isDisconnect
        THEN /\ Connect(FALSE)
             /\ req' = [req EXCEPT ![i] =
                          [IdleRequest EXCEPT
                             !.pc = "connecting", !.caller = caller,
                             !.wOwner = IF NeedsConnect THEN NextPromise ELSE 0,
                             !.wProm = IF NeedsConnect THEN 0 ELSE connectPromise]]
             /\ UNCHANGED <<pm, connectMessageId, disconnectMessageId>>
        ELSE /\ pm' = PMCreate(pm, TRUE)
             /\ connectMessageId' = IF isConnect THEN pm'.lastId ELSE connectMessageId
             /\ disconnectMessageId' =
                  IF isDisconnect THEN pm'.lastId ELSE disconnectMessageId
             /\ req' = [req EXCEPT ![i] =
                          [IdleRequest EXCEPT
                             !.pc = "sent", !.caller = caller,
                             !.isConnect = isConnect, !.isDisconnect = isDisconnect,
                             !.id = pm'.lastId, !.send = "pending"]]
             /\ UNCHANGED <<connectPromise, cps, didAutoConnect, gen, tcCalls>>
  /\ NoReturn
  /\ UNCHANGED <<disconnectPromise, isConnectionTerminated, isSendingConnect,
                 isSendingDisconnect, transport, disc, term, termRuns>>
  /\ UNCHANGED logEvents

UserSendRequest(i) == SendRequest(i, User)

HookRunning(h) ==
  IF h[1] = "afterConnectFn" THEN cps[h[2]].pc = "afterConnectFn"
  ELSE IF h = BeforeDisconnectFn THEN disc = "hook"
  ELSE term = "hook"

Hooks ==
  {AfterConnectFn(p) : p \in Promises}
    \cup {BeforeDisconnectFn, BeforeDisconnectFnOnTermination}

\* a running hook calls sendRequest, and awaits it
HookSendRequest(i, h) ==
  /\ HookRunning(h)
  /\ HooksRequestsDone(h)
  /\ SendRequest(i, h)

\* what `await this.connect()` observes: the promise of the connect() call,
\* which for the call that created the Resolvable settles at its return
Awaited(i) ==
  IF req[i].wOwner # 0
  THEN IF cps[req[i].wOwner].pc # "done" THEN "pending"
       ELSE IF cps[req[i].wOwner].ret = 0 THEN "rejected"
       ELSE cps[cps[req[i].wOwner].ret].st
  ELSE cps[req[i].wProm].st
AwaitedError(i) ==
  IF req[i].wOwner # 0
  THEN IF cps[req[i].wOwner].ret = 0 THEN TypeError
       ELSE cps[cps[req[i].wOwner].ret].err
  ELSE cps[req[i].wProm].err

\* sendRequest after `await this.connect()`: a rejection is thrown to the
\* caller; otherwise the entry is created and the frame handed to transport.send
SendRequestResumes(i) ==
  /\ req[i].pc = "connecting"
  /\ Awaited(i) # "pending"
  /\ IF Awaited(i) = "rejected"
     THEN /\ req' = [req EXCEPT ![i] = IdleRequest]
          /\ returned' = {Returned(0, AwaitedError(i))}
          /\ UNCHANGED pm
     ELSE /\ pm' = PMCreate(pm, FALSE)
          /\ req' = [req EXCEPT ![i].pc = "sent", ![i].id = pm'.lastId,
                                ![i].send = "pending",
                                ![i].wOwner = 0, ![i].wProm = 0]
          /\ NoReturn
  /\ UNCHANGED <<connectPromise, cps, disconnectPromise, didAutoConnect,
                 isConnectionTerminated, isSendingConnect, isSendingDisconnect,
                 connectMessageId, disconnectMessageId, transport, disc, term,
                 gen, tcCalls, termRuns>>
  /\ UNCHANGED logEvents

\* --------------------------------------------------------- specifications
\* The controller in its whole environment (hooks that send requests and
\* that throw, a transport whose connect, disconnect and send fail, signals
\* at any time), with sendRequest calls made one at a time.
Next ==
  \/ \E isAutoConnect \in BOOLEAN : UserConnect(isAutoConnect)
  \/ \E p \in Promises, ok, activeSessions, hasHook \in BOOLEAN :
       ConnectTransportSettles(p, ok, activeSessions, hasHook)
  \/ \E p \in Promises, ok \in BOOLEAN : AfterConnectFnSettles(p, ok)
  \/ UserDisconnect
  \/ \E ok \in BOOLEAN : DisconnectHookSettles(ok)
  \/ \E ok \in BOOLEAN : DisconnectTransportSettles(ok)
  \/ TransportDisconnected
  \/ \E ok \in BOOLEAN : TerminationHookSettles(ok)
  \/ UserSendRequest(1)
  \/ \E h \in Hooks : HookSendRequest(1, h)
  \/ SendRequestResumes(1)
  \/ \E ok \in BOOLEAN : TransportSendSettles(1, ok)
  \/ \E id \in MsgIds : \E data \in InboundData(id) : TransportMessage(id, data)
  \/ \E id \in MsgIds : Timeout(id)

Spec == Init /\ [][Next]_vars

\* The controller with up to MaxConcurrent sendRequest calls of user code in
\* progress at once, under hooks that run without sending or throwing and a
\* transport whose disconnect succeeds.
NextConcurrent ==
  \/ UserConnect(FALSE)
  \/ \E p \in Promises, ok, activeSessions, hasHook \in BOOLEAN :
       ConnectTransportSettles(p, ok, activeSessions, hasHook)
  \/ \E p \in Promises : AfterConnectFnSettles(p, TRUE)
  \/ UserDisconnect
  \/ DisconnectHookSettles(TRUE)
  \/ DisconnectTransportSettles(TRUE)
  \/ TransportDisconnected
  \/ TerminationHookSettles(TRUE)
  \/ \E i \in ReqIds : UserSendRequest(i)
  \/ \E i \in ReqIds : SendRequestResumes(i)
  \/ \E i \in ReqIds, ok \in BOOLEAN : TransportSendSettles(i, ok)
  \/ \E id \in MsgIds : \E data \in InboundData(id) : TransportMessage(id, data)
  \/ \E id \in MsgIds : Timeout(id)

SpecConcurrent == Init /\ [][NextConcurrent]_vars

\* An explicit or auto connect() whose transport signals 'disconnected' only
\* while a connect() call is in progress, with a hook that sends requests;
\* no disconnect() and no sendRequest of user code.
ConnectInProgress ==
  \E p \in Promises : cps[p].pc \in {"transportConnect", "afterConnectFn"}

TransportDisconnectedDuringConnect ==
  /\ ConnectInProgress
  /\ TransportDisconnected

NextHandshake ==
  \/ \E isAutoConnect \in BOOLEAN : UserConnect(isAutoConnect)
  \/ \E p \in Promises, ok, activeSessions, hasHook \in BOOLEAN :
       ConnectTransportSettles(p, ok, activeSessions, hasHook)
  \/ \E p \in Promises, ok \in BOOLEAN : AfterConnectFnSettles(p, ok)
  \/ TransportDisconnectedDuringConnect
  \/ \E ok \in BOOLEAN : TerminationHookSettles(ok)
  \/ \E h \in Hooks : HookSendRequest(1, h)
  \/ \E ok \in BOOLEAN : TransportSendSettles(1, ok)
  \/ \E id \in MsgIds : \E data \in InboundData(id) : TransportMessage(id, data)
  \/ \E id \in MsgIds : Timeout(id)

SpecHandshake == Init /\ [][NextHandshake]_vars

\* A controller that is only ever connected by the auto-connect of a
\* sendRequest of user code, with an afterConnectFn that sends its request
\* while that sendRequest awaits the handshake; no connect() and no
\* disconnect() of user code.
NextAutoHandshake ==
  \/ UserSendRequest(1)
  \/ \E p \in Promises, ok, activeSessions, hasHook \in BOOLEAN :
       ConnectTransportSettles(p, ok, activeSessions, hasHook)
  \/ \E p \in Promises, ok \in BOOLEAN : AfterConnectFnSettles(p, ok)
  \/ TransportDisconnected
  \/ \E ok \in BOOLEAN : TerminationHookSettles(ok)
  \/ \E h \in Hooks : HookSendRequest(2, h)
  \/ SendRequestResumes(1)
  \/ \E i \in ReqIds, ok \in BOOLEAN : TransportSendSettles(i, ok)
  \/ \E id \in MsgIds : \E data \in InboundData(id) : TransportMessage(id, data)
  \/ \E id \in MsgIds : Timeout(id)

SpecAutoHandshake == Init /\ [][NextAutoHandshake]_vars

\* The log subscriptions of the module, under any sequence of subscribe,
\* unsubscribe and logged entries.
NextLogEvents ==
  \/ \E onLogFn \in LogFns : Subscribe(onLogFn)
  \/ \E subscriptionId \in SubscriptionKeys : Unsubscribe(subscriptionId)
  \/ Broadcast

SpecLogEvents == Init /\ [][NextLogEvents]_vars

\* ---------------------------------------------------------------- claims
\* C1: sendRequest calls issued on a controller on which connect has never
\* been called drive one transport.connect, and none hands its frame to
\* transport.send before that handshake has resolved: with no disconnect and
\* no termination, while the sendRequest that made the first and only
\* handshake still awaits it unresolved, no sendRequest has its frame at
\* transport.send.
C1_AutoConnectCoalescing ==
  \A i, j \in ReqIds :
    /\ req[j].pc = "connecting"
    /\ req[j].wOwner # 0
    /\ cps[req[j].wOwner].st = "pending"
    /\ tcCalls = 1
    /\ disconnectPromise = "null"
    /\ ~isConnectionTerminated
    => req[i].pc # "sent"

\* C2: connect is idempotent within a connection generation: while a
\* connectPromise exists, no step invokes transport.connect or makes another
\* Resolvable, a connect() call made by sendRequest awaits that same
\* connectPromise, and afterConnectFn is not entered again for a Resolvable
\* whose connect() call has gone past it.
C2_ConnectIdempotent ==
  [][connectPromise # 0 =>
       /\ tcCalls' = tcCalls
       /\ connectPromise' \in {connectPromise, 0}
       /\ \A i \in ReqIds :
            req[i].pc = "idle" /\ req'[i].pc = "connecting"
            => req'[i].wOwner = 0 /\ req'[i].wProm = connectPromise
       /\ \A p \in Promises :
            /\ cps[p].pc = "done" => cps'[p].pc = "done"
            /\ cps[p].pc = "afterConnectFn" => cps'[p].pc \in {"afterConnectFn", "done"}]_vars

\* a sendRequest awaits, through a later connect() call, the one handshake
\* of the generation, which failed
C2_Witness ==
  \E i \in ReqIds :
    /\ req[i].pc = "connecting"
    /\ req[i].wProm # 0
    /\ cps[req[i].wProm].st = "rejected"
    /\ tcCalls = 1

\* C3: within one connection generation the disconnect() calls run exactly
\* one teardown: a generation with a resolved handshake and no hook in
\* progress, in which disconnect() has been called, has had one teardown
\* begin.
C3_IdempotentDisconnect ==
  /\ gen.disconnectCalled
  /\ connectPromise # 0
  /\ cps[connectPromise].st = "resolved"
  /\ ~isSendingDisconnect
  => gen.teardowns = 1

\* C4: the controller's 'disconnected' signal is emitted once per connection
\* generation, whatever disconnect() calls and transport signals occur: no
\* generation sees a second emit.
C4_DisconnectedEmittedOnce ==
  gen.emits <= 1

\* C5: the body of onConnectionTerminated runs at most once however many
\* transport 'disconnected' signals arrive (a run happens only with the latch
\* clear and no earlier run, and sets the latch), and the latch
\* isConnectionTerminated, once true, is never false again.
C5_IdempotentTermination ==
  [][/\ termRuns' # termRuns
          => /\ termRuns = 0
             /\ termRuns' = 1
             /\ ~isConnectionTerminated
             /\ isConnectionTerminated'
     /\ isConnectionTerminated => isConnectionTerminated']_vars

\* two signals have arrived and the body has run once
C5_Witness ==
  /\ transport.disconnectedSignals = 2
  /\ termRuns = 1
  /\ isConnectionTerminated

\* C6: no pending entry is resolved or rejected more than once, whatever the
\* interleaving of responses, timeouts, mass-cancels, synthesized responses
\* and delete, and a completed entry is no longer in the pending table.
C6_UniqueCompletion ==
  \A id \in MsgIds :
    /\ pm.completions[id] <= 1
    /\ pm.completions[id] >= 1 => id \notin pm.pending

\* every entry was completed once, and disconnect() and the termination
\* handler have both run their mass-cancel
C6_Witness ==
  /\ \A id \in MsgIds : pm.completions[id] = 1 /\ id \notin pm.pending
  /\ disconnectPromise # "null"
  /\ isConnectionTerminated

\* C7: no two sendRequest calls are assigned the same message id over the
\* life of the controller, reconnects included: lastId never decreases, an
\* id given to a call is larger than every id given before and is a fresh
\* pending entry, and the calls in progress hold distinct ids.
C7_IdUniqueness ==
  [][/\ pm'.lastId >= pm.lastId
     /\ \A i \in ReqIds :
          req'[i].id # 0 /\ req'[i].id # req[i].id
          => /\ req'[i].id > pm.lastId
             /\ req'[i].id \notin pm.pending
             /\ req'[i].id \in pm'.pending
     /\ \A i, j \in ReqIds :
          i # j /\ req'[i].id # 0 => req'[i].id # req'[j].id]_vars

\* a second id is given in a second connection generation while the first
\* entry is still pending
C7_Witness ==
  /\ tcCalls = 2
  /\ \E i, j \in ReqIds : req[i].id = 1 /\ req[j].id = 2
  /\ pm.pending = {1, 2}

\* C8: a sendRequest that resolves with data resolves with the data of the
\* response whose responseId is the messageId of its own frame, whatever the
\* order of the responses; and outside of a disconnect or termination a
\* sendRequest that does not throw resolves with such data.
C8_RoundTripById ==
  \A r \in returned :
    /\ r.result.k = "data" => r.result = Data(PayloadOf(r.id))
    /\ (/\ disconnectPromise = "null"
        /\ ~isConnectionTerminated
        /\ ~IsError(r.result)) => r.result.k = "data"

\* the answer to the second frame arrives first and goes to its caller, the
\* first entry still pending
C8_Witness ==
  /\ returned = {Returned(2, Data(PayloadOf(2)))}
  /\ 1 \in pm.pending
  /\ disconnectPromise = "null"

C10_ErrorRemapExclusion ==
  \A id \in pm.pending, n \in BrowserLaunchErrorNames, m \in BOOLEAN :
    OnResponse(pm, [responseId |-> id, data |-> Err(n, m)]).settled[id]
      = Err(n, FALSE)

\* a sendRequest has thrown the launch error of its response, marked
\* isDisconnecting, during a disconnect
C10_Witness ==
  /\ disconnectPromise # "null"
  /\ \E r \in returned : r.id # 0 /\ r.result.n \in BrowserLaunchErrorNames

\* C11: an inbound error response rejects its pending entry with a
\* DisconnectedError exactly when (a disconnect has been initiated, or the
\* error is named SessionClosedOrMissingError, or it carries isDisconnecting)
\* and the error is not one of the browser-launch kind; otherwise the entry
\* is rejected with the original error; and the delivered error never
\* carries the isDisconnecting marker.
C11_DisconnectAdjacentRemap ==
  \A id \in pm.pending, n \in ResponseErrorNames, m \in BOOLEAN :
    LET delivered ==
          OnResponse(pm, [responseId |-> id, data |-> Err(n, m)]).settled[id]
        adjacent ==
          \/ disconnectPromise # "null"
          \/ n = "SessionClosedOrMissingError"
          \/ m
    IN /\ delivered =
            IF adjacent /\ n \notin BrowserLaunchErrorNames
            THEN DisconnectedError
            ELSE Err(n, FALSE)
       /\ delivered.m = FALSE

\* with no disconnect and no termination, a sendRequest has thrown the
\* DisconnectedError that its error response was remapped to
C11_Witness ==
  /\ disconnectPromise = "null"
  /\ ~isConnectionTerminated
  /\ \E r \in returned : r.id # 0 /\ r.result = DisconnectedError

\* C12: in disconnect() the mass-cancel comes before beforeDisconnectFn: in
\* the step in which disconnect() starts its hook, the pending table is left
\* with no entry of user traffic (no entry that is not internal).
C12_CancelBeforeHook ==
  [][disc # "hook" /\ disc' = "hook"
       => /\ isSendingDisconnect'
          /\ pm'.pending \ pm'.internal = {}]_vars

\* disconnect() has just started its hook, having cancelled the pending
\* request of a call that returned undefined
C12_Witness ==
  /\ disc = "hook"
  /\ isSendingDisconnect
  /\ \E r \in returned : r.id # 0 /\ r.result = Undefined
  /\ pm.pending = {}
  /\ pm.completions[1] = 1

\* C13: a connect() call emits 'connected' only on leaving its try block
\* without a throw: not while its afterConnectFn runs, after a successful
\* afterConnectFn when it ran one (isSendingConnect back to false), with
\* connectPromise settled first, and never when its transport.connect, its
\* handshake-abort check or its afterConnectFn threw; and a sendRequest that
\* awaited a handshake goes on to its entry only after 'connected' was
\* emitted for the connectPromise it awaited.
C13_ConnectedAfterHook ==
  [][/\ \A p \in Promises :
          /\ cps'[p].pc = "afterConnectFn" => ~cps'[p].connected
          /\ cps'[p].thrown # None => ~cps'[p].connected
          /\ ~cps[p].connected /\ cps'[p].connected
             => /\ cps'[p].pc = "done"
                /\ cps[p].pc \in {"transportConnect", "afterConnectFn"}
                /\ cps[p].pc = "afterConnectFn" => ~isSendingConnect'
                /\ connectPromise # 0
                /\ cps'[connectPromise].st # "pending"
     /\ \A i \in ReqIds :
          req[i].pc = "connecting" /\ req'[i].pc = "sent"
          => LET q == IF req[i].wOwner # 0 THEN cps[req[i].wOwner].ret
                      ELSE req[i].wProm
             IN \/ cps[q] = ConstructedResolved
                \/ \E p \in Promises : cps[p].connected /\ cps[p].ret = q]_vars

\* the handshake that a sendRequest started has emitted 'connected', and the
\* call has gone on to its entry
C13_Witness ==
  /\ tcCalls = 1
  /\ cps[1].connected
  /\ cps[1].ret = 1
  /\ disconnectPromise = "null"
  /\ \E i \in ReqIds :
       /\ req[i].pc = "sent"
       /\ req[i].caller = User
       /\ req[i].id = 1
       /\ ~req[i].isConnect

\* C14: on a reused controller the connect() that follows a completed
\* disconnect() makes a fresh connectPromise and invokes transport.connect,
\* and its handshake goes on as the first one did: in a generation so
\* opened, in which disconnect() has not been called, the connect() call
\* leaves transport.connect for afterConnectFn or its completion, or with the
\* error of transport.connect, never with the handshake-abort error.
C14_ReconnectRunsHandshake ==
  [][/\ connectPromise = 0 /\ connectPromise' # 0
          => /\ cps[connectPromise'].st = "unused"
             /\ cps'[connectPromise'].st = "pending"
             /\ cps'[connectPromise'].pc = "transportConnect"
             /\ tcCalls' = tcCalls + 1
     /\ \A p \in Promises :
          /\ tcCalls = 2
          /\ connectPromise = p
          /\ ~gen.disconnectCalled
          /\ cps[p].pc = "transportConnect"
          /\ cps'[p].pc = "done"
          => cps'[p].thrown \in {None, ConnectError}]_vars

\* C15: disconnectPromise is made once per connection generation: the first
\* disconnect() call of a generation opened by connect() after a completed
\* disconnect() makes a disconnectPromise and begins the teardown.
C15_DisconnectPromisePerGeneration ==
  [][tcCalls = 2 /\ ~gen.disconnectCalled /\ gen'.disconnectCalled
       => /\ gen'.teardowns = 1
          /\ disc' = "hook"
          /\ disconnectPromise' = "pending"]_vars

\* C16: a connect() call that the handshake-abort check stopped (disconnect
\* initiated during transport.connect, active sessions, not an auto-connect)
\* fails with the DisconnectedError: it returns a promise rejected with that
\* error, and has not emitted 'connected' nor entered afterConnectFn.
C16_HandshakeAbort ==
  \A p \in Promises :
    cps[p].thrown = DisconnectedError
    => /\ ~cps[p].connected
       /\ cps[p].pc = "done"
       /\ cps[p].ret # 0
       /\ cps[cps[p].ret].st = "rejected"
       /\ cps[cps[p].ret].err = DisconnectedError

\* C17: when the transport emits 'disconnected' during an explicit connect()
\* (not an auto-connect), the connect promise rejects with a
\* DisconnectedError: once the signal has been observed, no connectPromise
\* of an explicit connect() is resolved, and a finished connect() call has
\* not emitted 'connected'.
C17_TransportDiesDuringHandshake ==
  isConnectionTerminated /\ ~didAutoConnect
  => \A p \in Promises : cps[p].st # "resolved" /\ ~cps[p].connected

\* C18: a connect failure is permanent for the generation: the connect()
\* call that threw rejects connectPromise with the error it threw, a rejected
\* connectPromise keeps its error, and while connectPromise is rejected no
\* step invokes transport.connect and, with no disconnect and no termination
\* under way, no sendRequest of user code gets past its `await this.connect()`
\* to transport.send.
C18_ConnectFailurePermanent ==
  [][/\ \A p \in Promises :
          /\ cps[p].pc # "done" /\ cps'[p].pc = "done" /\ cps'[p].thrown # None
             => /\ connectPromise # 0
                /\ cps'[connectPromise].st = "rejected"
                /\ cps'[connectPromise].err = cps'[p].thrown
          /\ cps[p].st = "rejected"
             => cps'[p].st = "rejected" /\ cps'[p].err = cps[p].err
     /\ connectPromise # 0 /\ cps[connectPromise].st = "rejected"
          => /\ tcCalls' = tcCalls
             /\ \A i \in ReqIds :
                  /\ req[i].pc = "idle"
                  /\ req'[i].caller = User
                  /\ disconnectPromise = "null"
                  /\ ~isConnectionTerminated
                  => req'[i].pc = "connecting"]_vars

\* C19: didAutoConnect is true when the connect() that made connectPromise
\* was called by sendRequest.
C19_DidAutoConnect ==
  [][\A i \in ReqIds :
       req[i].pc = "idle" /\ req'[i].wOwner # 0 => didAutoConnect']_vars

\* C20: within one sendRequest the response wins over the send: when the
\* response has resolved the entry of a request of user traffic and
\* transport.send then rejects, with no disconnect and no termination under
\* way, the call returns the data of the response.
C20_ResponseWinsOverSend ==
  [][\A i \in ReqIds :
       /\ req[i].pc = "sent"
       /\ req[i].send = "pending"
       /\ ~req[i].isConnect /\ ~req[i].isDisconnect
       /\ disconnectPromise = "null"
       /\ ~isConnectionTerminated
       /\ pm.settled[req[i].id].k = "data"
       /\ req'[i].pc = "idle"
       => Returned(req[i].id, pm.settled[req[i].id]) \in returned']_vars

\* C21: the timeout of one request rejects that request only: the one call
\* that throws the TimeoutError is the call whose entry was pending under
\* that id, whatever the state of its transport.send; every other entry and
\* every other call is left as it was; and a response that arrives for an
\* id no longer in the table changes nothing.
C21_TimeoutIsolation ==
  [][/\ \A r \in returned' :
          r.result = TimeoutError
          => /\ returned' = {r}
             /\ r.id \in pm.pending
             /\ pm'.pending = pm.pending \ {r.id}
             /\ \A j \in MsgIds \ {r.id} :
                  /\ pm'.settled[j] = pm.settled[j]
                  /\ pm'.completions[j] = pm.completions[j]
             /\ \A i \in ReqIds :
                  IF req[i].id = r.id
                  THEN req[i].pc = "sent" /\ req'[i] = IdleRequest
                  ELSE req'[i] = req[i]
     /\ \A id \in MsgIds : \A data \in InboundData(id) :
          id \notin pm.pending
          => OnResponse(pm, [responseId |-> id, data |-> data]) = pm]_vars

\* the timer of the first request has fired while its frame was still with
\* transport.send: its call threw the TimeoutError, and the second request
\* is still pending
C21_Witness ==
  /\ returned = {Returned(1, TimeoutError)}
  /\ 2 \in pm.pending
  /\ \E i \in ReqIds : req[i].id = 2 /\ req[i].pc = "sent" /\ req[i].send = "pending"

\* C22: disconnectPromise is pending only while the disconnect() that made
\* it is suspended in beforeDisconnectFn or in transport.disconnect: the step
\* in which either settles or throws and disconnect() ends leaves it
\* resolved, and once resolved it stays resolved.
C22_DisconnectPromiseResolves ==
  [][/\ disc \in {"hook", "transportDisconnect"} /\ disc' = "done"
          => disconnectPromise' = "resolved"
     /\ disconnectPromise = "pending" => disc \in {"hook", "transportDisconnect"}
     /\ disc = "done" => disconnectPromise = "resolved"
     /\ disconnectPromise = "resolved" => disconnectPromise' = "resolved"]_vars

\* beforeDisconnectFn threw (its flag is still set and nothing ran after
\* it), and disconnectPromise is resolved
C22_Witness ==
  /\ disc = "done"
  /\ disconnectPromise = "resolved"
  /\ isSendingDisconnect
  /\ term = "idle"
  /\ transport.disconnectedSignals = 0

\* C23: isSendingConnect is true only while an afterConnectFn is running and
\* isSendingDisconnect only while a beforeDisconnectFn is running (the one of
\* disconnect() or the one of onConnectionTerminated): with no hook
\* invocation in progress both flags are false.
C23_FlagsOnlyDuringHooks ==
  /\ isSendingConnect => \E p \in Promises : cps[p].pc = "afterConnectFn"
  /\ isSendingDisconnect => disc = "hook" \/ term = "hook"

\* C24: when onConnectionTerminated runs, the outstanding request that a
\* hook issued as the internal disconnect request is resolved with null, and
\* the outstanding request that afterConnectFn issued as the internal
\* connect request is resolved with null when the connect() of that
\* handshake was an auto-connect (called with isAutoConnect, or made by a
\* sendRequest) and rejected with a DisconnectedError otherwise; these requests get the synthesized response,
\* not the error of the cancel that follows.
C24_TerminationSynthesis ==
  [][~isConnectionTerminated /\ isConnectionTerminated'
       => \A i \in ReqIds :
            /\ req[i].pc = "sent"
            /\ req[i].id \in pm.pending
            /\ req[i].caller \in Hooks
            => LET SettledWith(v) ==
                     \/ pm'.settled[req[i].id] = v
                     \/ Returned(req[i].id, v) \in returned'
               IN /\ req[i].isDisconnect /\ ~req[i].isConnect
                       => SettledWith(Null)
                  /\ req[i].isConnect /\ ~req[i].isDisconnect
                     /\ req[i].caller[1] = "afterConnectFn"
                       => SettledWith(
                            IF \/ didAutoConnect
                               \/ \E j \in ReqIds : req[j].wOwner = req[i].caller[2]
                            THEN Null ELSE DisconnectedError)]_vars

\* C25: when transport.send rejects for a request and no disconnect has been
\* called, the call throws the send error, its entry is no longer in the
\* table, the internal-id slot that the call set is cleared, and a response
\* that arrives afterwards for its id changes nothing.
C25_SendFailure ==
  [][\A i \in ReqIds :
       TransportSendSettles(i, FALSE) /\ disconnectPromise = "null"
       => /\ Returned(req[i].id, SendError) \in returned'
          /\ req'[i] = IdleRequest
          /\ req[i].id \notin pm'.pending
          /\ req[i].isConnect => connectMessageId' = 0
          /\ req[i].isDisconnect => disconnectMessageId' = 0
          /\ \A data \in InboundData(req[i].id) :
               OnResponse(pm', [responseId |-> req[i].id, data |-> data]) = pm']_vars

\* transport.send has rejected for request 1 while its entry was pending:
\* the call threw the send error and the entry was deleted unsettled
C25_Witness ==
  /\ returned = {Returned(1, SendError)}
  /\ disconnectPromise = "null"
  /\ 1 \notin pm.pending
  /\ pm.completions[1] = 0
  /\ connectMessageId = 0 /\ disconnectMessageId = 0
  /\ ~isConnectionTerminated /\ ~isSendingConnect /\ ~isSendingDisconnect

\* C26: a sendRequest of user code hands its frame to transport.send only
\* after its `await this.connect()` has observed a resolved handshake, and it
\* is never an internal handshake request: it has sampled neither flag, and
\* neither connectMessageId nor disconnectMessageId holds its id.
C26_UserRequestNeverInternal ==
  [][\A i \in ReqIds :
       req[i].pc # "sent" /\ req'[i].pc = "sent" /\ req'[i].caller = User
       => /\ req[i].pc = "connecting"
          /\ Awaited(i) = "resolved"
          /\ ~req'[i].isConnect /\ ~req'[i].isDisconnect
          /\ req'[i].id \notin {connectMessageId', disconnectMessageId'}]_vars

\* C27: a connect() call that is suspended while a disconnect() runs to
\* completion still settles the Resolvable it made and returns its promise:
\* it neither fails on a cleared connectPromise nor settles the Resolvable
\* of another connect() call.
C27_ConnectSettlesOwnPromise ==
  [][\A p \in Promises :
       cps[p].pc \in {"transportConnect", "afterConnectFn"} /\ cps'[p].pc = "done"
       => /\ cps'[p].ret = p
          /\ cps'[p].st # "pending"
          /\ \A q \in Promises \ {p} : cps'[q].st = cps[q].st]_vars

\* C28: no request is left hanging by teardown: when disconnect() completes
\* (transport.disconnect has resolved and the transport has emitted
\* 'disconnected'), no entry of ordinary traffic is left in the pending
\* table and no sendRequest call that sampled neither flag is still waiting
\* for its entry.
C28_NoRequestLeftHanging ==
  [][DisconnectTransportSettles(TRUE)
       => /\ pm'.pending \ pm'.internal = {}
          /\ \A i \in ReqIds :
               req'[i].pc = "sent" /\ ~req'[i].isConnect /\ ~req'[i].isDisconnect
               => pm'.settled[req'[i].id] # None]_vars

\* C29: log subscriptions deliver: every broadcast invokes exactly the
\* functions of the subscriptions that subscribe has returned an id for and
\* unsubscribe has not been called on, and the ids of the subscriptions
\* active at one time are distinct.
C29_LogSubscriptionsDeliver ==
  [][/\ logEvents'.logId # logEvents.logId
          => logEvents'.invoked = {s.fn : s \in logEvents.active}
     /\ \A s, t \in logEvents'.active : s.n # t.n => s.id # t.id]_vars

====
